---------------------------- MODULE Spec2Model ----------------------------
(* Floppa-jukebox: the progress reporter of the analysis engine            *)
(* (engine/app/progress.py) and the analysis pipeline of engine3           *)
(* (fj_analysis_engine/analysis.py, beats.py), frame_slice                 *)
(* (engine/app/time_utils.py), the API's retry helper and youtube endpoint *)
(* (api/api/main.py) and the background worker (api/worker/worker.py).     *)
EXTENDS Integers, Sequences, FiniteSets, TLC

(***************************************************************************)
(* Bounds of the model.                                                    *)
(***************************************************************************)
\* report() invocations (pipeline thread and ramp threads together) per run
MaxCalls == 3
\* ramps started per run (each one is a thread of its own)
MaxRamps == 1
\* longest track, in seconds
MaxDuration == 2
\* largest novelty value of a frame
MaxNovelty == 1
\* largest pitch-class energy of a bin
MaxEnergy == 2
\* runs of analyze_audio on the same inputs, one after the other
MaxRuns == 2
\* longest track of the runs that differ in their beat gaps, in seconds
MaxBeatSeconds == 4
\* frame_slice: the times run from -MaxFrameTime to MaxFrameTime seconds
MaxFrameTime == 2
\* _retry_with_backoff: the largest `attempts` it is called with
MaxAttempts == 3
\* concurrent requests for one youtube_id
MaxRequests == 2
\* jobs queued for the worker
MaxJobs == 2
\* config.tatums_per_beat; times are counted in 1/tatums_per_beat seconds, so
\* that the tatum subdivision of whole-second beat times is exact
tatums_per_beat == 2

(***************************************************************************)
(* Small helpers.                                                          *)
(***************************************************************************)
Max2(a, b) == IF a >= b THEN a ELSE b
Min2(a, b) == IF a <= b THEN a ELSE b

\* Python's int(n / d) for d > 0: truncation toward zero.
TruncDiv(n, d) == IF n >= 0 THEN n \div d ELSE -((-n) \div d)

Abs(n) == IF n >= 0 THEN n ELSE -n

RECURSIVE GCD(_, _)
GCD(a, b) == IF b = 0 THEN a ELSE GCD(b, a % b)

\* Exact fractions n/d (d > 0) in lowest terms stand for the floats.
Frac(n, d) ==
    LET g == GCD(Abs(n), d) IN [n |-> n \div g, d |-> d \div g]
Whole(k) == [n |-> k, d |-> 1]
FLeq(x, y) == x.n * y.d <= y.n * x.d
FLess(x, y) == x.n * y.d < y.n * x.d
FAdd(x, y) == Frac(x.n * y.d + y.n * x.d, x.d * y.d)
FSub(x, y) == Frac(x.n * y.d - y.n * x.d, x.d * y.d)
FMul(x, y) == Frac(x.n * y.n, x.d * y.d)
\* x / y for y > 0
FDiv(x, y) == Frac(x.n * y.d, x.d * y.n)

Range(s) == {s[i] : i \in 1..Len(s)}
SetMax(S) == CHOOSE m \in S : \A x \in S : x <= m
SetMin(S) == CHOOSE m \in S : \A x \in S : m <= x

\* sorted(set): the members of a set of numbers in increasing order
RECURSIVE SortedSeq(_)
SortedSeq(S) ==
    IF S = {} THEN <<>> ELSE <<SetMin(S)>> \o SortedSeq(S \ {SetMin(S)})

(***************************************************************************)
(* ProgressReporter (engine/app/progress.py).                              *)
(*                                                                         *)
(* Thread 0 is the pipeline thread that owns the reporter; threads         *)
(* 1..MaxRamps are the runner threads that ramp() starts.  report() is not *)
(* locked, so each of its lines is a step of its own.                      *)
(***************************************************************************)
VARIABLES
    callback,       \* TRUE iff the reporter was built with a callback
    last_progress,  \* ProgressReporter.last_progress
    pc,             \* thread -> the line it is about to execute
    percent,        \* thread -> report()'s local `percent`
    arg,            \* thread -> the percent the running report() was called with
    stage,          \* thread -> report()'s `stage`
    stop_event,     \* ramp thread -> its threading.Event is set
    ramp_args,      \* ramp thread -> [start_pct, end_pct, duration] of its ramp
    pct,            \* ramp thread -> runner's local `pct`
    handle,         \* the ramp the pipeline holds (0: none)
    joined,         \* ramps for which stop_ramp() has returned
    log,            \* the callback's invocations, in order
    ncalls          \* report() invocations so far

pvars == <<callback, last_progress, pc, percent, arg, stage, stop_event,
           ramp_args, pct, handle, joined, log, ncalls>>

\* analyze_audio (engine3/fj_analysis_engine/analysis.py): one run.
VARIABLES
    apc,            \* the line analyze_audio is about to execute
    duration,       \* len(audio) / sample_rate
    downbeats,      \* the downbeat tracker's output: [time, number] rows
    fallback_beats, \* the plain beat tracker's output: times
    boundaries,     \* segment_from_novelty's output
    novelty,        \* compute_novelty's output, one value per frame
    seg_hpcp,       \* summarize_segment_features' hpcp, per segment window
    seg_mfcc,       \* summarize_segment_features' mfcc, per segment window
    seg_rms,        \* summarize_segment_features' rms_db, per segment window
    calibration,    \* the calibration document (NoCalibration: none given)
    beat_times,     \* analyze_audio's local beat_times
    beat_numbers,   \* analyze_audio's local beat_numbers
    segments,       \* analyze_audio's local segments
    analysis,       \* the returned document (NoResult: nothing returned)
    previous,       \* what the run before this one returned (NoResult: none)
    runs,           \* runs started so far on these inputs
    applied         \* per segment, the corrections the calibration loop made

\* the inputs of a run: they are the same for every run of a behaviour
inputs == <<duration, downbeats, fallback_beats, boundaries, novelty,
            seg_hpcp, seg_mfcc, seg_rms, calibration>>

avars == <<apc, inputs, beat_times, beat_numbers, segments, analysis,
           previous, runs, applied>>

\* frame_slice (engine/app/time_utils.py): one call.
VARIABLES
    fpc,            \* "call": about to run, "returned": the result is there
    frame_call,     \* the arguments time_start, time_end, sr, hop_length
    frame_window    \* the returned pair (start, end)

fvars == <<fpc, frame_call, frame_window>>

\* _retry_with_backoff (api/api/main.py): one call.
VARIABLES
    rpc,            \* the line the call is at; "returned", "raised" at its end
    attempts,       \* the argument `attempts`
    attempt,        \* the loop variable
    response,       \* the local `response` (NoResponse: unbound)
    delay,          \* the local `delay`, in half seconds
    fn_calls,       \* calls of fn so far
    refreshes,      \* forced token refreshes so far
    slept,          \* time.sleep so far, in half seconds
    cause           \* what ended the call

rvars == <<rpc, attempts, attempt, response, delay, fn_calls, refreshes,
           slept, cause>>

\* POST /api/analysis/youtube (api/api/main.py): concurrent requests for one
\* youtube_id, and the download tasks they schedule.
VARIABLES
    qpc,            \* per request: the line it is at; "returned" at its end
    existing,       \* per request: the local `existing`
    made,           \* per request: the id of the job it created (0: none)
    answer,         \* per request: the id of the job in its response
    api_jobs,       \* the jobs table: the rows in the order of their creation
    tasks           \* the downloads scheduled and not yet run

qvars == <<qpc, existing, made, answer, api_jobs, tasks>>

\* The worker (api/worker/worker.py): main's loop over the queued jobs and
\* the bump_progress thread run_job starts for each job.
VARIABLES
    wpc,            \* main: the line it is at
    job,            \* main: the claimed job (0: none)
    wjobs,          \* the jobs table: per job its row
    input_files,    \* per job: its input file is there
    output_files,   \* per job: its output file is there
    logs,           \* per job: its log is there
    progress,       \* run_job: the local `progress` of the PROGRESS line
                    \* read last (0: none read yet)
    returncode,     \* run_job: the local `returncode`
    engine,         \* per job: its engine process: "none", "running", "exited"
    bpc,            \* per job: the line its bump_progress thread is at
    next_value,     \* per job: bump_progress's local `next_value`
    progress_state, \* per job: progress_state["value"] (0 once run_job and
                    \* the thread have both ended: the dict is gone)
    bump_stop,      \* per job: run_job's stop_event is set (FALSE once the
                    \* thread has ended: nothing reads it then)
    raised,         \* the jobs main caught an exception for
    marked          \* the jobs main set to "complete"

wvars == <<wpc, job, wjobs, input_files, output_files, logs, progress,
           returncode, engine, bpc, next_value, progress_state, bump_stop,
           raised, marked>>

\* what the reporter and analyze_audio do not touch
xvars == <<fvars, rvars, qvars, wvars>>

Main == 0
Ramps == 1..MaxRamps
Threads == {Main} \cup Ramps

\* Percent arguments the pipeline passes to report(); report() takes any int.
PercentArgs == {-5, 50, 150}

\* Stage labels; the waiting ones are those that start with "beats_wait".
Stages == {"beats", "beats_wait"}
StartsWithBeatsWait(s) == s \in {"beats_wait"}

\* ramp() arguments: start_pct, end_pct, stage, duration (track seconds).
RampArgs == {[start_pct |-> 10, end_pct |-> 30, stage |-> s, duration |-> 10] :
                s \in Stages}

\* time.time() - start_time readings of the runner, in tenths of a second.
ElapsedReadings == {0, 100, 250}

NoArgs == [start_pct |-> 0, end_pct |-> 0, stage |-> "beats", duration |-> 0]

InitProgress ==
    /\ callback \in BOOLEAN
    /\ last_progress = -1
    /\ pc = [t \in Threads |-> IF t = Main THEN "idle" ELSE "unborn"]
    /\ percent = [t \in Threads |-> 0]
    /\ arg = [t \in Threads |-> 0]
    /\ stage = [t \in Threads |-> "beats"]
    /\ stop_event = [r \in Ramps |-> FALSE]
    /\ ramp_args = [r \in Ramps |-> NoArgs]
    /\ pct = [r \in Ramps |-> 0]
    /\ handle = 0
    /\ joined = {}
    /\ log = <<>>
    /\ ncalls = 0

\* Where report() returns to: the pipeline goes on, the runner is at line 41.
ReturnPc(t) == IF t = Main THEN "idle" ELSE "L41"

\* A report() that passes its argument on without looking at last_progress.
MonotonePercent_NoMax(last, p) == p

\* progress.py:21  percent = max(self.last_progress, percent)
MonotonePercent(last, p) == Max2(last, p)

\* The pipeline calls report(p, s): line 19 returns at once without a callback.
CallReport(p, s) ==
    /\ pc[Main] = "idle"
    /\ ncalls < MaxCalls
    /\ ncalls' = ncalls + 1
    /\ IF callback
       THEN /\ pc' = [pc EXCEPT ![Main] = "L21"]
            /\ percent' = [percent EXCEPT ![Main] = p]
            /\ arg' = [arg EXCEPT ![Main] = p]
            /\ stage' = [stage EXCEPT ![Main] = s]
       ELSE UNCHANGED <<pc, percent, arg, stage>>
    /\ UNCHANGED <<callback, last_progress, stop_event, ramp_args, pct,
                   handle, joined, log>>
    /\ UNCHANGED <<avars, xvars>>

\* progress.py:21
ReportL21(t) ==
    /\ pc[t] = "L21"
    /\ percent' = [percent EXCEPT ![t] = MonotonePercent(last_progress, percent[t])]
    /\ pc' = [pc EXCEPT ![t] = "L22"]
    /\ UNCHANGED <<callback, last_progress, arg, stage, stop_event, ramp_args,
                   pct, handle, joined, log, ncalls>>
    /\ UNCHANGED <<avars, xvars>>

\* A report() that drops every repeated percent, whatever the stage.
Suppress_AnyStage(p, last, s) == p = last

\* progress.py:22  percent == self.last_progress and stage.startswith(...)
Suppress(p, last, s) == p = last /\ StartsWithBeatsWait(s)

\* progress.py:22-23
ReportL22(t) ==
    /\ pc[t] = "L22"
    /\ pc' = [pc EXCEPT ![t] =
                IF Suppress(percent[t], last_progress, stage[t])
                THEN ReturnPc(t) ELSE "L24"]
    /\ UNCHANGED <<callback, last_progress, percent, arg, stage, stop_event,
                   ramp_args, pct, handle, joined, log, ncalls>>
    /\ UNCHANGED <<avars, xvars>>

\* progress.py:24
ReportL24(t) ==
    /\ pc[t] = "L24"
    /\ last_progress' = percent[t]
    /\ pc' = [pc EXCEPT ![t] = "L25"]
    /\ UNCHANGED <<callback, percent, arg, stage, stop_event, ramp_args, pct,
                   handle, joined, log, ncalls>>
    /\ UNCHANGED <<avars, xvars>>

\* progress.py:25  self.callback(percent, stage)
ReportL25(t) ==
    /\ pc[t] = "L25"
    /\ log' = Append(log, [percent |-> percent[t], stage |-> stage[t],
                           arg |-> arg[t], by |-> t,
                           late |-> t \in joined])
    /\ pc' = [pc EXCEPT ![t] = ReturnPc(t)]
    /\ UNCHANGED <<callback, last_progress, percent, arg, stage, stop_event,
                   ramp_args, pct, handle, joined, ncalls>>
    /\ UNCHANGED <<avars, xvars>>

\* progress.py:31  duration_s, in tenths of a second
DurationS10(track_s) ==
    Max2(200, Min2(1200, IF track_s # 0 THEN track_s * 6 ELSE 600))

\* progress.py:38-39  pct after `elapsed10` tenths of a second
RampPct(a, elapsed10) ==
    Min2(a.end_pct,
         Max2(a.start_pct,
              a.start_pct + TruncDiv(elapsed10 * (a.end_pct - a.start_pct),
                                     DurationS10(a.duration))))

\* progress.py:27-47  ramp(): None without a callback, else a started thread
StartRamp(r, a) ==
    /\ pc[Main] = "idle"
    /\ callback
    /\ handle = 0
    /\ pc[r] = "unborn"
    /\ \A q \in Ramps : q < r => pc[q] # "unborn"
    /\ ramp_args' = [ramp_args EXCEPT ![r] = a]
    /\ stop_event' = [stop_event EXCEPT ![r] = FALSE]
    /\ pc' = [pc EXCEPT ![r] = "L36"]
    /\ handle' = r
    /\ UNCHANGED <<callback, last_progress, percent, arg, stage, pct, joined,
                   log, ncalls>>
    /\ UNCHANGED <<avars, xvars>>

\* progress.py:36  while not stop_event.is_set()
RunnerL36(r) ==
    /\ pc[r] = "L36"
    /\ pc' = [pc EXCEPT ![r] = IF stop_event[r] THEN "done" ELSE "L37"]
    /\ UNCHANGED <<callback, last_progress, percent, arg, stage, stop_event,
                   ramp_args, pct, handle, joined, log, ncalls>>
    /\ UNCHANGED <<avars, xvars>>

\* progress.py:37-40  read the clock, compute pct, call self.report(pct, stage)
RunnerL37(r, elapsed10) ==
    /\ pc[r] = "L37"
    /\ ncalls < MaxCalls
    /\ ncalls' = ncalls + 1
    /\ pct' = [pct EXCEPT ![r] = RampPct(ramp_args[r], elapsed10)]
    /\ percent' = [percent EXCEPT ![r] = pct'[r]]
    /\ arg' = [arg EXCEPT ![r] = pct'[r]]
    /\ stage' = [stage EXCEPT ![r] = ramp_args[r].stage]
    /\ pc' = [pc EXCEPT ![r] = "L21"]
    /\ UNCHANGED <<callback, last_progress, stop_event, ramp_args, handle,
                   joined, log>>
    /\ UNCHANGED <<avars, xvars>>

\* progress.py:41-42  if pct >= end_pct: break
RunnerL41(r) ==
    /\ pc[r] = "L41"
    /\ pc' = [pc EXCEPT ![r] =
                IF pct[r] >= ramp_args[r].end_pct THEN "done" ELSE "L43"]
    /\ UNCHANGED <<callback, last_progress, percent, arg, stage, stop_event,
                   ramp_args, pct, handle, joined, log, ncalls>>
    /\ UNCHANGED <<avars, xvars>>

\* progress.py:43  stop_event.wait(0.5): returns when set or after 0.5 s
RunnerL43(r) ==
    /\ pc[r] = "L43"
    /\ pc' = [pc EXCEPT ![r] = "L36"]
    /\ UNCHANGED <<callback, last_progress, percent, arg, stage, stop_event,
                   ramp_args, pct, handle, joined, log, ncalls>>
    /\ UNCHANGED <<avars, xvars>>

\* progress.py:49-53  stop_ramp(ramp): stop_event.set()
StopRampL53 ==
    /\ pc[Main] = "idle"
    /\ handle # 0
    /\ stop_event' = [stop_event EXCEPT ![handle] = TRUE]
    /\ pc' = [pc EXCEPT ![Main] = "L54"]
    /\ UNCHANGED <<callback, last_progress, percent, arg, stage, ramp_args,
                   pct, handle, joined, log, ncalls>>
    /\ UNCHANGED <<avars, xvars>>

\* thread.join(timeout) returns when the thread has ended or the timeout ran out.
JoinReturns(thread_done, timed_out) == thread_done \/ timed_out

\* progress.py:54  thread.join(PROGRESS_JOIN_TIMEOUT_S), then stop_ramp returns
StopRampL54(timed_out) ==
    /\ pc[Main] = "L54"
    /\ JoinReturns(pc[handle] = "done", timed_out)
    /\ joined' = joined \cup {handle}
    /\ handle' = 0
    /\ pc' = [pc EXCEPT ![Main] = "idle"]
    /\ UNCHANGED <<callback, last_progress, percent, arg, stage, stop_event,
                   ramp_args, pct, log, ncalls>>
    /\ UNCHANGED <<avars, xvars>>

(***************************************************************************)
(* analyze_audio (engine3/fj_analysis_engine/analysis.py).                 *)
(*                                                                         *)
(* Times are whole numbers of 1/tatums_per_beat seconds; the trackers, the *)
(* boundary detector and the frame grid work on whole seconds.             *)
(***************************************************************************)
Sec(t) == t * tatums_per_beat

\* AnalysisConfig.time_signature
time_signature == 4

NoCalibration == [given |-> FALSE]
NoResult == [returned |-> FALSE]
NoMap == [present |-> FALSE, source |-> <<>>, target |-> <<>>]

Ones(n) == [i \in 1..n |-> 1]

\* beats.py:65  beat_numbers = [(i % 4) + 1 for i in range(len(times))]
CountedInFours(n) == [i \in 1..n |-> ((i - 1) % 4) + 1]

\* beats.py:43-66  the downbeat tracker's rows when it has any, else the plain
\* beat tracker's times counted in fours
extract_beats(db, fb) ==
    IF db # <<>>
    THEN [times |-> [i \in 1..Len(db) |-> db[i].time],
          numbers |-> [i \in 1..Len(db) |-> db[i].number]]
    ELSE [times |-> fb, numbers |-> CountedInFours(Len(fb))]

\* An analyze_audio that takes the tracker's output as it comes.
FallbackBeat_None(b) == b

\* analysis.py:70-72  one beat at t=0 with number 1 when there are no beats
FallbackBeat(b) ==
    IF b.times = <<>> THEN [times |-> <<0>>, numbers |-> <<1>>] ELSE b

\* A _make_quanta that lets every quantum last to the end of the track.
make_quanta_ToEnd(starts, dur, confidence) ==
    [i \in 1..Len(starts) |->
        IF confidence # <<>>
        THEN [start |-> starts[i], duration |-> Max2(0, dur - starts[i]),
              confidence |-> confidence[i]]
        ELSE [start |-> starts[i], duration |-> Max2(0, dur - starts[i])]]

\* analysis.py:43-54
make_quanta(starts, dur, confidence) ==
    [i \in 1..Len(starts) |->
        LET end == IF i + 1 <= Len(starts) THEN starts[i + 1] ELSE dur
        IN  IF confidence # <<>>
            THEN [start |-> starts[i],
                  duration |-> Max2(0, end - starts[i]),
                  confidence |-> confidence[i]]
            ELSE [start |-> starts[i],
                  duration |-> Max2(0, end - starts[i])]]

\* analysis.py:32-40; searchsorted(side="left") counts the frames before start
segment_confidence(nov, frame_times, start) ==
    IF Len(nov) = 0 THEN Frac(1, 2)
    ELSE LET found == Cardinality({i \in 1..Len(frame_times) :
                                      frame_times[i] < start})
             idx == Min2(Max2(found, 0), Len(nov) - 1)
             min_n == SetMin(Range(nov))
             max_n == SetMax(Range(nov))
         IN  IF max_n - min_n = 0 THEN Frac(1, 2)
             ELSE Frac(nov[idx + 1] - min_n, max_n - min_n)

\* A summarizer that leaves the energies as they are.
segment_pitches_Raw(hpcp) ==
    IF Len(hpcp) = 0 THEN [i \in 1..12 |-> Whole(0)]
    ELSE [i \in 1..Len(hpcp) |-> Whole(hpcp[i])]

\* analysis.py:96-101
segment_pitches(hpcp) ==
    IF Len(hpcp) = 0 THEN [i \in 1..12 |-> Whole(0)]
    ELSE LET m == SetMax(Range(hpcp))
             max_val == IF m > 0 THEN m ELSE 1
         IN  [i \in 1..Len(hpcp) |-> Frac(hpcp[i], max_val)]

\* numpy arrays of rank 1 (vec) and rank 2 (rows, each of the same length)
Arr1(v) == [rank |-> 1, vec |-> v, rows |-> <<>>]
Arr2(m) == [rank |-> 2, vec |-> <<>>, rows |-> m]

\* analysis.py:95  mfcc[1:13], or mfcc padded with zeros to twelve values
segment_timbre(mfcc) ==
    IF Len(mfcc) >= 13 THEN [i \in 1..12 |-> mfcc[i + 1]]
    ELSE [i \in 1..12 |-> IF i <= Len(mfcc) THEN mfcc[i] ELSE 0]

\* numpy.argmax: the first position of the largest value, counted from 0
ArgMax(s) ==
    (CHOOSE i \in 1..Len(s) :
        /\ s[i] = SetMax(Range(s))
        /\ \A j \in 1..(i - 1) : s[j] # s[i]) - 1

\* seg_feat["times"]: the frame times of a window, one frame a second.
WindowTimes(start, n) == [k \in 1..n |-> start + Sec(k - 1)]

\* analysis.py:102-109
segment_loudness(rms, start) ==
    IF Len(rms) > 0
    THEN [loudness_start |-> rms[1],
          loudness_max |-> SetMax(Range(rms)),
          loudness_max_time |->
              WindowTimes(start, Len(rms))[ArgMax(rms) + 1] - start]
    ELSE [loudness_start |-> 0, loudness_max |-> 0, loudness_max_time |-> 0]

\* The frame grid of compute_frame_features: one frame a second.
FrameTimes(dur) == [i \in 1..(dur \div tatums_per_beat) |-> Sec(i - 1)]

\* analysis.py:89-122  the segment of window i
segment_of(i) ==
    LET start == boundaries[i]
        end == boundaries[i + 1]
        loud == segment_loudness(seg_rms, start)
    IN  [start |-> start,
         duration |-> Max2(0, end - start),
         confidence |-> segment_confidence(novelty, FrameTimes(duration), start),
         loudness_start |-> loud.loudness_start,
         loudness_max |-> loud.loudness_max,
         loudness_max_time |-> loud.loudness_max_time,
         pitches |-> segment_pitches(seg_hpcp),
         timbre |-> Arr1(segment_timbre(seg_mfcc))]

\* An interpolation that takes the target quantile at or below x.
Interp_Step(x, xp, fp) ==
    LET below == {k \in 1..Len(xp) : FLeq(Whole(xp[k]), x)}
    IN  IF below = {} THEN Whole(fp[1]) ELSE Whole(fp[SetMax(below)])

\* numpy.interp(x, xp, fp) for non-decreasing xp and len(fp) = len(xp):
\* fp[1] left of xp, fp[n] right of it, else with j the last position whose
\* xp[j] <= x, fp[j] when x = xp[j] or j = n, else the line through j, j + 1
Interp(x, xp, fp) ==
    LET n == Len(xp) IN
    IF FLess(x, Whole(xp[1])) THEN Whole(fp[1])
    ELSE IF FLess(Whole(xp[n]), x) THEN Whole(fp[n])
    ELSE LET j == SetMax({k \in 1..n : FLeq(Whole(xp[k]), x)})
         IN  IF j = n \/ Whole(xp[j]) = x THEN Whole(fp[j])
             ELSE FAdd(Whole(fp[j]),
                       FDiv(FMul(FSub(x, Whole(xp[j])),
                                 Whole(fp[j + 1] - fp[j])),
                            Whole(xp[j + 1] - xp[j])))

\* numpy.interp raises ValueError when fp and xp differ in length
interp_raises(xp, fp) == Len(xp) # Len(fp)

\* analysis.py:18-23, when it does not raise
apply_confidence_mapping(value, mapping) ==
    IF Len(mapping.source) = 0 \/ Len(mapping.target) = 0 THEN value
    ELSE Interp(value, mapping.source, mapping.target)

\* analysis.py:18-23  line 23 raises on arrays of different lengths
confidence_mapping_raises(mapping) ==
    /\ Len(mapping.source) # 0
    /\ Len(mapping.target) # 0
    /\ interp_raises(mapping.source, mapping.target)

\* The shape of an array: its rows (1 for a vector) and its columns.
NRows(x) == IF x.rank = 2 THEN Len(x.rows) ELSE 1
NCols(x) == IF x.rank = 2 THEN Len(x.rows[1]) ELSE Len(x.vec)

\* numpy broadcasting of two dimensions: equal, or one of them is 1
Compatible(m, n) == m = n \/ m = 1 \/ n = 1
Stretch(m, n) == IF m = 1 THEN n ELSE m
Broadcastable(x, y) ==
    /\ Compatible(NCols(x), NCols(y))
    /\ Compatible(NRows(x), NRows(y))

\* element (i, j) of x stretched to the broadcast shape
Elem(x, i, j) ==
    LET c == IF NCols(x) = 1 THEN 1 ELSE j
    IN  IF x.rank = 2 THEN x.rows[IF NRows(x) = 1 THEN 1 ELSE i][c]
        ELSE x.vec[c]

\* x * y of numpy, for broadcastable x and y
Times(x, y) ==
    LET r == Stretch(NRows(x), NRows(y))
        c == Stretch(NCols(x), NCols(y))
    IN  IF x.rank = 1 /\ y.rank = 1
        THEN Arr1([j \in 1..c |-> Elem(x, 1, j) * Elem(y, 1, j)])
        ELSE Arr2([i \in 1..r |->
                      [j \in 1..c |-> Elem(x, i, j) * Elem(y, i, j)]])

\* x + y of numpy, for broadcastable x and y
Plus(x, y) ==
    LET r == Stretch(NRows(x), NRows(y))
        c == Stretch(NCols(x), NCols(y))
    IN  IF x.rank = 1 /\ y.rank = 1
        THEN Arr1([j \in 1..c |-> Elem(x, 1, j) + Elem(y, 1, j)])
        ELSE Arr2([i \in 1..r |->
                      [j \in 1..c |-> Elem(x, i, j) + Elem(y, i, j)]])

\* analysis.py:14-15  values * a + b, when it does not raise
apply_affine(values, a, b) == Plus(Times(values, a), b)

\* analysis.py:15 raises ValueError on operands that cannot be broadcast
affine_raises(values, a, b) ==
    \/ ~Broadcastable(values, a)
    \/ ~Broadcastable(Times(values, a), b)

\* Python dicts with optional keys: `keys` are the keys present.
Truthy(map) == map.keys # {}
Get(map, k, default) == IF k \in map.keys THEN map[k] ELSE default

\* analysis.py:131-132  the defaults of a timbre map
DefaultA == Arr1([i \in 1..12 |-> 1])
DefaultB == Arr1([i \in 1..12 |-> 0])

RECURSIVE Pow(_, _)
Pow(x, p) == IF p = 0 THEN 1 ELSE x * Pow(x, p - 1)

\* analysis.py:26-29  numpy.power(values, power) for a whole power
apply_pitch_power(values, power) ==
    [i \in 1..Len(values) |->
        Frac(Pow(values[i].n, power), Pow(values[i].d, power))]

\* analysis.py:130-133
calibrate_timbre(seg, cal) ==
    IF Truthy(cal.timbre)
    THEN [seg EXCEPT !.timbre =
             apply_affine(@, Get(cal.timbre, "a", DefaultA),
                             Get(cal.timbre, "b", DefaultB))]
    ELSE seg

\* analysis.py:134-138
calibrate_loudness(seg, cal) ==
    IF Truthy(cal.loudness)
    THEN LET la == Get(cal.loudness, "a", 1)
             lb == Get(cal.loudness, "b", 0)
         IN  [seg EXCEPT !.loudness_start = @ * la + lb,
                         !.loudness_max = @ * la + lb]
    ELSE seg

\* analysis.py:139-142
calibrate_confidence(seg, cal) ==
    IF cal.confidence.present
    THEN [seg EXCEPT !.confidence = apply_confidence_mapping(@, cal.confidence)]
    ELSE seg

\* analysis.py:143-146
calibrate_pitches(seg, cal) ==
    IF Truthy(cal.pitch) /\ "power" \in cal.pitch.keys
    THEN [seg EXCEPT !.pitches = apply_pitch_power(@, cal.pitch.power)]
    ELSE seg

\* analysis.py:129-146  the corrections of one segment, in the loop's order
calibrate_segment(seg, cal) ==
    calibrate_pitches(
        calibrate_confidence(
            calibrate_loudness(
                calibrate_timbre(seg, cal), cal), cal), cal)

\* analysis.py:129-146  the loop body raises on the first segment
calibration_raises(segs, cal) ==
    /\ Len(segs) > 0
    /\ \/ /\ Truthy(cal.timbre)
          /\ affine_raises(segs[1].timbre, Get(cal.timbre, "a", DefaultA),
                                           Get(cal.timbre, "b", DefaultB))
       \/ /\ cal.confidence.present
          /\ confidence_mapping_raises(cal.confidence)

\* A calibration step that overwrites the confidences whatever it is given.
calibrated_Overwritten(segs, cal) ==
    [i \in 1..Len(segs) |-> [segs[i] EXCEPT !.confidence = Whole(1)]]

\* analysis.py:124-146  `if calibration:` and the loop over the segments
calibrated(segs, cal) ==
    IF cal.given
    THEN [i \in 1..Len(segs) |-> calibrate_segment(segs[i], cal)]
    ELSE segs

\* analysis.py:151  the beat times whose number is 1, in beat order
RECURSIVE downbeat_times(_, _, _)
downbeat_times(times, numbers, i) ==
    IF i > Min2(Len(times), Len(numbers)) THEN <<>>
    ELSE (IF numbers[i] = 1 THEN <<times[i]>> ELSE <<>>)
         \o downbeat_times(times, numbers, i + 1)

\* A quantizer without the forced bar at the first beat.
bar_starts_Downbeats(times, numbers) == downbeat_times(times, numbers, 1)

\* analysis.py:151-153
bar_starts(times, numbers) ==
    LET firsts == downbeat_times(times, numbers, 1)
    IN  IF firsts = <<>> THEN <<times[1]>> ELSE firsts

\* A subdivision that starts one part after the beat: range(1, n + 1).
RECURSIVE tatum_list_AfterBeat(_, _, _)
tatum_list_AfterBeat(times, dur, i) ==
    IF i > Len(times) THEN <<>>
    ELSE LET beat == times[i]
             next_beat == IF i + 1 <= Len(times) THEN times[i + 1] ELSE dur
             beat_duration == Max2(0, next_beat - beat)
         IN  [t \in 1..tatums_per_beat |->
                 beat + ((beat_duration * t) \div tatums_per_beat)]
             \o tatum_list_AfterBeat(times, dur, i + 1)

\* analysis.py:157-162  tatum_starts, in the order the loop appends them
RECURSIVE tatum_list(_, _, _)
tatum_list(times, dur, i) ==
    IF i > Len(times) THEN <<>>
    ELSE LET beat == times[i]
             next_beat == IF i + 1 <= Len(times) THEN times[i + 1] ELSE dur
             beat_duration == Max2(0, next_beat - beat)
         IN  [t \in 1..tatums_per_beat |->
                 beat + ((beat_duration * (t - 1)) \div tatums_per_beat)]
             \o tatum_list(times, dur, i + 1)

\* A quantizer that keeps the tatum list as the loop built it.
tatum_starts_AsBuilt(times, dur) == tatum_list(times, dur, 1)

\* analysis.py:163  sorted(set(tatum_starts))
tatum_starts(times, dur) == SortedSeq(Range(tatum_list(times, dur, 1)))

\* numpy.median of a non-empty list of fractions
RECURSIVE FInsert(_, _)
FInsert(x, s) ==
    IF s = <<>> THEN <<x>>
    ELSE IF FLeq(x, s[1]) THEN <<x>> \o s
    ELSE <<s[1]>> \o FInsert(x, Tail(s))
RECURSIVE FSorted(_)
FSorted(s) == IF s = <<>> THEN <<>> ELSE FInsert(s[1], FSorted(Tail(s)))
Median(s) ==
    LET t == FSorted(s)
        n == Len(t)
    IN  IF n % 2 = 1 THEN t[(n + 1) \div 2]
        ELSE FDiv(FAdd(t[n \div 2], t[(n \div 2) + 1]), Whole(2))

\* analysis.py:167-171  60 / dt for every positive gap dt (in seconds)
RECURSIVE tempo_list(_, _)
tempo_list(times, i) ==
    IF i + 1 > Len(times) THEN <<>>
    ELSE LET dt == times[i + 1] - times[i]
         IN  (IF dt > 0 THEN <<Frac(60 * tatums_per_beat, dt)>> ELSE <<>>)
             \o tempo_list(times, i + 1)

RECURSIVE FSum(_)
FSum(q) == IF q = <<>> THEN Whole(0) ELSE FAdd(q[1], FSum(Tail(q)))

\* A tempo that is the mean of 60 / dt.
track_tempo_Mean(times) ==
    LET tempos == tempo_list(times, 1)
    IN  IF tempos # <<>> THEN FDiv(FSum(tempos), Whole(Len(tempos)))
        ELSE Whole(0)

\* analysis.py:172
track_tempo(times) ==
    LET tempos == tempo_list(times, 1)
    IN  IF tempos # <<>> THEN Median(tempos) ELSE Whole(0)

\* analysis.py:69-72
ExtractBeats ==
    /\ apc = "L69"
    /\ LET b == FallbackBeat(extract_beats(downbeats, fallback_beats))
       IN  /\ beat_times' = b.times
           /\ beat_numbers' = b.numbers
    /\ apc' = "L74"
    /\ UNCHANGED <<inputs, segments, analysis, previous, runs,
                   applied>>
    /\ UNCHANGED <<pvars, xvars>>

\* A summarizer that goes on with the list it finds.
fresh_segments_Kept(left) == left

\* analysis.py:89  segments = []
fresh_segments(left) == <<>>

\* analysis.py:74-122
Summarize ==
    /\ apc = "L74"
    /\ segments' = fresh_segments(segments)
                      \o [i \in 1..(Len(boundaries) - 1) |-> segment_of(i)]
    /\ apc' = "L124"
    /\ UNCHANGED <<inputs, beat_times, beat_numbers, analysis, previous, runs,
                   applied>>
    /\ UNCHANGED <<pvars, xvars>>

\* analysis.py:130-146  the corrections the loop body makes, in its order
corrections(cal) ==
    (IF Truthy(cal.timbre) THEN <<"timbre">> ELSE <<>>)
    \o (IF Truthy(cal.loudness) THEN <<"loudness">> ELSE <<>>)
    \o (IF cal.confidence.present THEN <<"confidence">> ELSE <<>>)
    \o (IF Truthy(cal.pitch) /\ "power" \in cal.pitch.keys
        THEN <<"pitch">> ELSE <<>>)

\* analysis.py:124-146; an exception leaves analyze_audio at once
Calibrate ==
    /\ apc = "L124"
    /\ IF calibration.given /\ calibration_raises(segments, calibration)
       THEN /\ apc' = "raised"
            /\ UNCHANGED <<segments, applied>>
       ELSE /\ apc' = "L148"
            /\ segments' = calibrated(segments, calibration)
            /\ applied' = [i \in 1..Len(segments) |->
                              IF calibration.given
                              THEN corrections(calibration) ELSE <<>>]
    /\ UNCHANGED <<inputs, beat_times, beat_numbers, analysis, previous, runs>>
    /\ UNCHANGED <<pvars, xvars>>

\* A quantizer that makes a section of every detected boundary but the last.
section_starts_Detected(bnds) == SubSeq(bnds, 1, Len(bnds) - 1)

\* analysis.py:165  _make_quanta([0.0], ...): one section, from 0
section_starts(bnds) == <<0>>

\* An assembler that leaves the sections out of a track of no length.
assemble_Partial(sections, bars, beats, tatums, segs, track) ==
    IF track.duration = 0
    THEN [returned |-> TRUE, bars |-> bars, beats |-> beats,
          tatums |-> tatums, segments |-> segs, track |-> track]
    ELSE [returned |-> TRUE, sections |-> sections, bars |-> bars,
          beats |-> beats, tatums |-> tatums, segments |-> segs,
          track |-> track]

\* analysis.py:174-187  the returned document
assemble(sections, bars, beats, tatums, segs, track) ==
    [returned |-> TRUE, sections |-> sections, bars |-> bars,
     beats |-> beats, tatums |-> tatums, segments |-> segs, track |-> track]

\* analysis.py:148-187; line 153 raises IndexError on an empty beat_times
Quantize ==
    /\ apc = "L148"
    /\ IF beat_times = <<>>
       THEN /\ apc' = "raised"
            /\ UNCHANGED analysis
       ELSE /\ apc' = "done"
            /\ analysis' =
                 LET bars == bar_starts(beat_times, beat_numbers)
                     tatums == tatum_starts(beat_times, duration)
                     sections == section_starts(boundaries)
                 IN  assemble(
                      make_quanta(sections, duration, Ones(Len(sections))),
                      make_quanta(bars, duration, Ones(Len(bars))),
                      make_quanta(beat_times, duration, Ones(Len(beat_times))),
                      make_quanta(tatums, duration, Ones(Len(tatums))),
                      segments,
                      [duration |-> duration,
                       tempo |-> track_tempo(beat_times),
                       time_signature |-> time_signature])
    /\ UNCHANGED <<inputs, beat_times, beat_numbers, segments, previous, runs,
                   applied>>
    /\ UNCHANGED <<pvars, xvars>>

\* The caller runs analyze_audio once more on the same inputs; what the run
\* before left behind (its lists, its document) is still in memory.
Rerun ==
    /\ apc \in {"done", "raised"}
    /\ runs < MaxRuns
    /\ runs' = runs + 1
    /\ previous' = analysis
    /\ analysis' = NoResult
    /\ apc' = "L69"
    /\ UNCHANGED <<inputs, beat_times, beat_numbers, segments, applied>>
    /\ UNCHANGED <<pvars, xvars>>

(***************************************************************************)
(* The inputs of a run.                                                    *)
(***************************************************************************)
Seconds(d) == {Sec(t) : t \in 0..d}

\* Beat numbers of the downbeat tracker: 1..bpb in a cycle, from any phase.
\* beats.py:42  beats_per_bar=[3, 4]
DownbeatRows(times, bpb, phase) ==
    [i \in 1..Len(times) |->
        [time |-> times[i], number |-> ((phase + i - 1) % bpb) + 1]]

\* Increasing times within the track, as the trackers give them.
TimeLists(d) == {SortedSeq(S) : S \in SUBSET Seconds(d)}

\* Boundary lists of the detector: increasing, from 0 to the track's end.
BoundaryLists(d) ==
    {SortedSeq(S \cup {0, Sec(d)}) : S \in SUBSET Seconds(d)}

\* Novelty curves: at most one value per frame.
NoveltyCurves(d) ==
    UNION {[1..n -> 0..MaxNovelty] : n \in 0..d}

\* Pitch-class energies of a window: none, or twelve bins.
HpcpInputs ==
    {<<>>} \cup
    {[i \in 1..12 |-> IF i = 1 THEN a ELSE IF i = 12 THEN b ELSE 0] :
        a \in 0..MaxEnergy, b \in 0..MaxEnergy}

\* Confidence maps: none; one without arrays; the identity; [0,1] -> [0,2];
\* one whose source array is missing; one with a repeated source quantile;
\* one whose arrays differ in length.
ConfMaps ==
    {NoMap,
     [present |-> TRUE, source |-> <<>>, target |-> <<>>],
     [present |-> TRUE, source |-> <<0, 1>>, target |-> <<0, 1>>],
     [present |-> TRUE, source |-> <<0, 1>>, target |-> <<0, 2>>],
     [present |-> TRUE, source |-> <<>>, target |-> <<0, 2>>],
     [present |-> TRUE, source |-> <<0, 0, 1>>, target |-> <<0, 1, 2>>],
     [present |-> TRUE, source |-> <<0, 1>>, target |-> <<0, 1, 2>>]}

Identity12 == [i \in 1..12 |-> [j \in 1..12 |-> IF i = j THEN 1 ELSE 0]]

\* Timbre maps: none; the scale vector of ones with bias 0; the identity
\* matrix with bias 0; a scale and a bias; a bias alone; a scale of the
\* wrong length.
NoTimbreMap == [keys |-> {}, a |-> DefaultA, b |-> DefaultB]
TimbreMaps ==
    {NoTimbreMap,
     [keys |-> {"a", "b"}, a |-> DefaultA, b |-> DefaultB],
     [keys |-> {"a", "b"}, a |-> Arr2(Identity12), b |-> DefaultB],
     [keys |-> {"a", "b"}, a |-> Arr1([i \in 1..12 |-> 2]),
                           b |-> Arr1([i \in 1..12 |-> 1])],
     [keys |-> {"b"}, a |-> DefaultA, b |-> Arr1([i \in 1..12 |-> 1])],
     [keys |-> {"a"}, a |-> Arr1(<<1, 1, 1>>), b |-> DefaultB]}

\* Loudness maps: none; a scale and a bias; a bias alone.
NoLoudnessMap == [keys |-> {}, a |-> 1, b |-> 0]
LoudnessMaps ==
    {NoLoudnessMap,
     [keys |-> {"a", "b"}, a |-> 2, b |-> 1],
     [keys |-> {"b"}, a |-> 1, b |-> 1]}

\* Pitch maps: none; a power of 2; a map without a power.
NoPitchMap == [keys |-> {}, power |-> 1]
PitchMaps ==
    {NoPitchMap,
     [keys |-> {"power"}, power |-> 2],
     [keys |-> {"a"}, power |-> 1]}

Document(t, l, c, p) ==
    [given |-> TRUE, timbre |-> t, loudness |-> l, confidence |-> c,
     pitch |-> p, start_offset |-> NoMap]

\* The document with a start-offset quantile map beside its other maps.
WithStartOffset(doc) ==
    [doc EXCEPT !.start_offset =
        [present |-> TRUE, source |-> <<0, 1>>, target |-> <<0, 1>>]]

\* Documents that carry at most a confidence map.
ConfidenceDocs ==
    {NoCalibration} \cup
    {Document(NoTimbreMap, NoLoudnessMap, m, NoPitchMap) : m \in ConfMaps}

\* Documents that carry timbre, loudness and pitch maps, with the [0,1] ->
\* [0,2] confidence map or the one whose arrays differ in length.
CalibrationDocs ==
    {NoCalibration} \cup
    {Document(t, l, c, p) :
        t \in TimbreMaps, l \in LoudnessMaps, p \in PitchMaps,
        c \in {m \in ConfMaps : Len(m.source) = 2 /\ m.target # m.source}}
    \cup
    {WithStartOffset(Document(t, l, c, p)) :
        t \in {m \in TimbreMaps : m.keys = {"a", "b"} /\ m.a.vec # <<>>},
        l \in {m \in LoudnessMaps : m.keys = {"a", "b"}},
        p \in {m \in PitchMaps : "power" \in m.keys},
        c \in {m \in ConfMaps : m.source = <<0, 1>> /\ m.target = <<0, 2>>}}

\* mfcc summaries of a window: none, a short one, thirteen coefficients.
MfccInputs ==
    {<<>>, <<3, 1>>,
     [i \in 1..13 |-> IF i = 1 THEN 5 ELSE IF i = 2 THEN 1
                      ELSE IF i = 13 THEN -2 ELSE 0]}

\* rms_db of the frames of a window of d seconds.
RmsInputs(d) == {s \in {<<>>, <<-2>>, <<-2, -1>>, <<-1, -2>>} : Len(s) <= d}

InitRun ==
    /\ apc = "L69"
    /\ beat_times = <<>>
    /\ beat_numbers = <<>>
    /\ segments = <<>>
    /\ analysis = NoResult
    /\ previous = NoResult
    /\ runs = 1
    /\ applied = <<>>

\* Runs that differ in what the beat trackers found.
InitBeats ==
    /\ \E d \in 0..MaxDuration :
        /\ duration = Sec(d)
        /\ boundaries = SortedSeq({0, Sec(d)})
        /\ \/ /\ fallback_beats = <<>>
              /\ \E times \in TimeLists(d) \ {<<>>}, bpb \in {3, 4} :
                    \E phase \in 0..(bpb - 1) :
                        downbeats = DownbeatRows(times, bpb, phase)
           \/ /\ downbeats = <<>>
              /\ fallback_beats \in TimeLists(d)
    /\ novelty = <<>>
    /\ seg_hpcp = <<>>
    /\ seg_mfcc = <<>>
    /\ seg_rms = <<>>
    /\ calibration = NoCalibration
    /\ InitRun

\* Runs that differ in the boundaries, the novelty, the pitch energies and
\* the confidence map.
InitFeatures ==
    /\ \E d \in 0..MaxDuration :
        /\ duration = Sec(d)
        /\ boundaries \in BoundaryLists(d)
        /\ novelty \in NoveltyCurves(d)
    /\ downbeats = <<>>
    /\ fallback_beats = <<>>
    /\ seg_hpcp \in HpcpInputs
    /\ seg_mfcc = <<>>
    /\ seg_rms = <<>>
    /\ calibration \in ConfidenceDocs
    /\ InitRun

\* Runs on a longer track that differ in the gaps between their beats.
InitTempo ==
    /\ duration = Sec(MaxBeatSeconds)
    /\ boundaries = <<0, Sec(MaxBeatSeconds)>>
    /\ downbeats = <<>>
    /\ fallback_beats \in TimeLists(MaxBeatSeconds)
    /\ novelty = <<>>
    /\ seg_hpcp = <<>>
    /\ seg_mfcc = <<>>
    /\ seg_rms = <<>>
    /\ calibration = NoCalibration
    /\ InitRun

\* Runs that differ in the timbre and loudness summaries and in the
\* calibration document.
InitCalibration ==
    /\ \E d \in 0..MaxDuration :
        /\ duration = Sec(d)
        /\ boundaries = SortedSeq({0, Sec(d)})
        /\ seg_rms \in RmsInputs(d)
    /\ downbeats = <<>>
    /\ fallback_beats = <<>>
    /\ novelty = <<>>
    /\ seg_hpcp \in {h \in HpcpInputs : Len(h) > 0 => h[1] = 1 /\ h[12] = MaxEnergy}
    /\ seg_mfcc \in MfccInputs
    /\ calibration \in CalibrationDocs
    /\ InitRun

IdleProgress ==
    /\ callback = FALSE
    /\ last_progress = -1
    /\ pc = [t \in Threads |-> IF t = Main THEN "idle" ELSE "unborn"]
    /\ percent = [t \in Threads |-> 0]
    /\ arg = [t \in Threads |-> 0]
    /\ stage = [t \in Threads |-> "beats"]
    /\ stop_event = [r \in Ramps |-> FALSE]
    /\ ramp_args = [r \in Ramps |-> NoArgs]
    /\ pct = [r \in Ramps |-> 0]
    /\ handle = 0
    /\ joined = {}
    /\ log = <<>>
    /\ ncalls = 0

IdleAnalysis ==
    /\ apc = "off"
    /\ duration = 0
    /\ downbeats = <<>>
    /\ fallback_beats = <<>>
    /\ boundaries = <<>>
    /\ novelty = <<>>
    /\ seg_hpcp = <<>>
    /\ seg_mfcc = <<>>
    /\ seg_rms = <<>>
    /\ calibration = NoCalibration
    /\ beat_times = <<>>
    /\ beat_numbers = <<>>
    /\ segments = <<>>
    /\ analysis = NoResult
    /\ previous = NoResult
    /\ runs = 0
    /\ applied = <<>>

(***************************************************************************)
(* frame_slice (engine/app/time_utils.py).                                 *)
(***************************************************************************)
\* math.floor and math.ceil of the fraction n/d, d > 0
Floor(n, d) == n \div d
Ceil(n, d) == -((-n) \div d)

\* time_utils.py:11-14; the times are fractions of a second
frame_slice(time_start, time_end, sr, hop_length) ==
    LET from == Floor(time_start.n * sr, time_start.d * hop_length)
        to == Ceil(time_end.n * sr, time_end.d * hop_length)
    IN  [start |-> Max2(0, from), end |-> Max2(from + 1, to)]

\* Times in half seconds, sample rates and hop lengths.
FrameTimesIn == {Frac(k, 2) : k \in (-2 * MaxFrameTime)..(2 * MaxFrameTime)}
SampleRates == {2, 3}
HopLengths == {1, 2}

NoWindow == [start |-> 0, end |-> 0]

InitFrames ==
    /\ fpc = "call"
    /\ frame_call \in [time_start : FrameTimesIn, time_end : FrameTimesIn,
                       sr : SampleRates, hop_length : HopLengths]
    /\ frame_window = NoWindow

IdleFrames ==
    /\ fpc = "off"
    /\ frame_call = [time_start |-> Whole(0), time_end |-> Whole(0),
                     sr |-> 2, hop_length |-> 1]
    /\ frame_window = NoWindow

FrameSlice ==
    /\ fpc = "call"
    /\ frame_window' = frame_slice(frame_call.time_start, frame_call.time_end,
                                   frame_call.sr, frame_call.hop_length)
    /\ fpc' = "returned"
    /\ UNCHANGED frame_call
    /\ UNCHANGED <<pvars, avars, rvars, qvars, wvars>>

(***************************************************************************)
(* _retry_with_backoff (api/api/main.py).                                  *)
(***************************************************************************)
NoResponse == [status_code |-> 0, bearer_message |-> FALSE]

\* What fn returns: the status, and whether the error message has
\* "Only valid bearer authentication supported" in it.
Responses ==
    {[status_code |-> 200, bearer_message |-> FALSE],
     [status_code |-> 400, bearer_message |-> FALSE],
     [status_code |-> 400, bearer_message |-> TRUE],
     [status_code |-> 401, bearer_message |-> FALSE],
     [status_code |-> 401, bearer_message |-> TRUE],
     [status_code |-> 429, bearer_message |-> FALSE],
     [status_code |-> 500, bearer_message |-> FALSE]}

\* main.py:507-515  the response is taken for an authentication failure
AuthFailure(resp) ==
    /\ resp.status_code \in {400, 401}
    /\ ~(resp.status_code = 400 /\ ~resp.bearer_message)

InitRetry ==
    /\ rpc = "L505"
    /\ attempts \in 0..MaxAttempts
    /\ attempt = 0
    /\ response = NoResponse
    /\ delay = 1
    /\ fn_calls = 0
    /\ refreshes = 0
    /\ slept = 0
    /\ cause = "none"

IdleRetry ==
    /\ rpc = "off"
    /\ attempts = 0
    /\ attempt = 0
    /\ response = NoResponse
    /\ delay = 1
    /\ fn_calls = 0
    /\ refreshes = 0
    /\ slept = 0
    /\ cause = "none"

\* main.py:505, 520  the loop head; after the loop `return response`, which
\* raises UnboundLocalError when the loop body never ran
RetryLoop ==
    /\ rpc = "L505"
    /\ IF attempt < attempts
       THEN /\ rpc' = "L506"
            /\ UNCHANGED cause
       ELSE IF response = NoResponse
       THEN /\ rpc' = "raised"
            /\ cause' = "unbound"
       ELSE /\ rpc' = "returned"
            /\ cause' = "exhausted"
    /\ UNCHANGED <<attempts, attempt, response, delay, fn_calls, refreshes,
                   slept>>
    /\ UNCHANGED <<pvars, avars, fvars, qvars, wvars>>

\* main.py:506-515  response = fn(), returned unless an authentication failure
RetryCall(resp) ==
    /\ rpc = "L506"
    /\ fn_calls' = fn_calls + 1
    /\ response' = resp
    /\ IF AuthFailure(resp)
       THEN /\ rpc' = "L516"
            /\ UNCHANGED cause
       ELSE /\ rpc' = "returned"
            /\ cause' = "answered"
    /\ UNCHANGED <<attempts, attempt, delay, refreshes, slept>>
    /\ UNCHANGED <<pvars, avars, fvars, qvars, wvars>>

\* main.py:506  fn() raises (the token cannot be fetched, the request fails)
RetryCallRaises ==
    /\ rpc = "L506"
    /\ fn_calls' = fn_calls + 1
    /\ rpc' = "raised"
    /\ cause' = "fn"
    /\ UNCHANGED <<attempts, attempt, response, delay, refreshes, slept>>
    /\ UNCHANGED <<pvars, avars, fvars, qvars, wvars>>

\* main.py:516  _get_spotify_token(force_refresh=True); lines 480-490: a
\* forced refresh fetches a token, and _fetch_spotify_token may raise
RetryRefresh(fetched) ==
    /\ rpc = "L516"
    /\ refreshes' = refreshes + 1
    /\ IF fetched
       THEN /\ rpc' = "L517"
            /\ UNCHANGED cause
       ELSE /\ rpc' = "raised"
            /\ cause' = "refresh"
    /\ UNCHANGED <<attempts, attempt, response, delay, fn_calls, slept>>
    /\ UNCHANGED <<pvars, avars, fvars, qvars, wvars>>

\* main.py:517-519  sleep and double the delay, except after the last attempt
RetrySleep ==
    /\ rpc = "L517"
    /\ IF attempt < attempts - 1
       THEN /\ slept' = slept + delay
            /\ delay' = delay * 2
       ELSE UNCHANGED <<slept, delay>>
    /\ attempt' = attempt + 1
    /\ rpc' = "L505"
    /\ UNCHANGED <<attempts, response, fn_calls, refreshes, cause>>
    /\ UNCHANGED <<pvars, avars, fvars, qvars, wvars>>

(***************************************************************************)
(* create_analysis_youtube and _download_youtube_audio (api/api/main.py).   *)
(* The jobs table is api/db.py: rows are inserted, read, updated and        *)
(* deleted one statement at a time.                                         *)
(***************************************************************************)
Requests == 1..MaxRequests

\* The ids a job can get: one row before the requests, one per request.
JobIds == 1..(MaxRequests + 1)

\* `existing` is None
NoJob == [id |-> 0, status |-> "none"]

\* A row of the jobs table for the youtube_id; deleted rows keep their place
\* so that ids stay positions.
Row(status) == [status |-> status, present |-> TRUE]

\* get_job_by_youtube_id: the row of the youtube_id created last, if any
get_job_by_youtube_id(table) ==
    LET ids == {j \in 1..Len(table) : table[j].present}
    IN  IF ids = {} THEN NoJob
        ELSE LET j == CHOOSE k \in ids : \A m \in ids : m <= k
             IN  [id |-> j, status |-> table[j].status]

\* create_job: a new row; uuid4 gives an id no row has
create_job(table, status) == Append(table, Row(status))

\* main.py:403  `existing and existing.status != "failed"`
live_job(row) == row # NoJob /\ row.status # "failed"

\* The table before the requests: no job of the youtube_id, or one.
InitApi ==
    /\ qpc = [r \in Requests |-> "L402"]
    /\ existing = [r \in Requests |-> NoJob]
    /\ made = [r \in Requests |-> 0]
    /\ answer = [r \in Requests |-> 0]
    /\ api_jobs \in {<<>>, <<Row("failed")>>, <<Row("downloading")>>,
                     <<Row("queued")>>, <<Row("complete")>>}
    /\ tasks = {}

IdleApi ==
    /\ qpc = [r \in Requests |-> "off"]
    /\ existing = [r \in Requests |-> NoJob]
    /\ made = [r \in Requests |-> 0]
    /\ answer = [r \in Requests |-> 0]
    /\ api_jobs = <<>>
    /\ tasks = {}

\* main.py:402  existing = get_job_by_youtube_id(DB_PATH, youtube_id)
ApiLookup(r) ==
    /\ qpc[r] = "L402"
    /\ existing' = [existing EXCEPT ![r] = get_job_by_youtube_id(api_jobs)]
    /\ qpc' = [qpc EXCEPT ![r] = "L403"]
    /\ UNCHANGED <<made, answer, api_jobs, tasks>>
    /\ UNCHANGED <<pvars, avars, fvars, rvars, wvars>>

\* main.py:403-404  an existing job that has not failed is the response
ApiCheck(r) ==
    /\ qpc[r] = "L403"
    /\ IF live_job(existing[r])
       THEN /\ answer' = [answer EXCEPT ![r] = existing[r].id]
            /\ qpc' = [qpc EXCEPT ![r] = "returned"]
       ELSE /\ qpc' = [qpc EXCEPT ![r] = "L409"]
            /\ UNCHANGED answer
    /\ UNCHANGED <<existing, made, api_jobs, tasks>>
    /\ UNCHANGED <<pvars, avars, fvars, rvars, wvars>>

\* main.py:406-419  create_job(..., status="downloading", ...)
ApiCreate(r) ==
    /\ qpc[r] = "L409"
    /\ api_jobs' = create_job(api_jobs, "downloading")
    /\ made' = [made EXCEPT ![r] = Len(api_jobs) + 1]
    /\ qpc' = [qpc EXCEPT ![r] = "L420"]
    /\ UNCHANGED <<existing, answer, tasks>>
    /\ UNCHANGED <<pvars, avars, fvars, rvars, wvars>>

\* main.py:420-423  the download is scheduled and the new job is the response
ApiSchedule(r) ==
    /\ qpc[r] = "L420"
    /\ tasks' = tasks \cup {made[r]}
    /\ answer' = [answer EXCEPT ![r] = made[r]]
    /\ qpc' = [qpc EXCEPT ![r] = "returned"]
    /\ UNCHANGED <<existing, made, api_jobs>>
    /\ UNCHANGED <<pvars, avars, fvars, rvars, wvars>>

\* main.py:292-385  _download_youtube_audio: the job becomes "queued", or
\* cleanup_failure deletes it
Download(j, downloaded) ==
    /\ j \in tasks
    /\ tasks' = tasks \ {j}
    /\ api_jobs' = [api_jobs EXCEPT ![j] =
                       IF downloaded THEN Row("queued")
                       ELSE [status |-> "deleted", present |-> FALSE]]
    /\ UNCHANGED <<qpc, existing, made, answer>>
    /\ UNCHANGED <<pvars, avars, fvars, rvars, wvars>>

(***************************************************************************)
(* The worker (api/worker/worker.py).  The jobs table is api/db.py: each   *)
(* call reads or writes the row of one job.                                 *)
(***************************************************************************)
Jobs == 1..MaxJobs

\* The percents of the engine's PROGRESS lines; a run prints them in
\* non-decreasing order.
EnginePercents == {74, 100}

\* set_job_progress: the row's progress, if the row is there
set_job_progress(table, j, value) ==
    IF table[j].present THEN [table EXCEPT ![j].progress = value] ELSE table

\* set_job_status: the row's status, if the row is there
set_job_status(table, j, status) ==
    IF table[j].present THEN [table EXCEPT ![j].status = status] ELSE table

\* A row that is not in the table.
NoRow == [status |-> "none", progress |-> 0, present |-> FALSE]

\* delete_job: the row is gone
delete_job(table, j) == [table EXCEPT ![j] = NoRow]

\* claim_next_job: the queued job created first (0: none)
claim_next_job(table) ==
    LET queued == {j \in Jobs : table[j].present /\ table[j].status = "queued"}
    IN  IF queued = {} THEN 0
        ELSE CHOOSE j \in queued : \A k \in queued : j <= k

\* The jobs table, the files and the logs.
Store == [table |-> wjobs, inputs |-> input_files, outputs |-> output_files,
          logged |-> logs]

cleanup_failed_job_KeepsOutput(store, j) ==
    [table |-> delete_job(store.table, j),
     inputs |-> [store.inputs EXCEPT ![j] = FALSE],
     outputs |-> store.outputs,
     logged |-> [store.logged EXCEPT ![j] = TRUE]]

\* worker.py:149-171  cleanup_failed_job: the log is written, the input and
\* the output file are unlinked if they are there, the row is deleted
cleanup_failed_job(store, j) ==
    [table |-> delete_job(store.table, j),
     inputs |-> [store.inputs EXCEPT ![j] = FALSE],
     outputs |-> [store.outputs EXCEPT ![j] = FALSE],
     logged |-> [store.logged EXCEPT ![j] = TRUE]]

\* run_job(j) is between the thread's start and its own end
InRunJob(j) == job = j /\ wpc \in {"L106", "L113", "L123"}

\* progress_state of job j once run_job ended: gone with the thread
Released(j) ==
    IF bpc[j] = "ended" THEN [progress_state EXCEPT ![j] = 0]
    ELSE progress_state

\* worker.py:74  next_value = min(75, current + 1)
bump(current) == IF current + 1 < 75 THEN current + 1 ELSE 75

\* The jobs are queued with progress 50 (main.py:384-385), their input
\* files are in storage.
InitWorker ==
    /\ wpc = "L182"
    /\ job = 0
    /\ wjobs = [j \in Jobs |->
                  [status |-> "queued", progress |-> 50, present |-> TRUE]]
    /\ input_files = [j \in Jobs |-> TRUE]
    /\ output_files = [j \in Jobs |-> FALSE]
    /\ logs = [j \in Jobs |-> FALSE]
    /\ progress = 0
    /\ returncode = 0
    /\ engine = [j \in Jobs |-> "none"]
    /\ bpc = [j \in Jobs |-> "off"]
    /\ next_value = [j \in Jobs |-> 0]
    /\ progress_state = [j \in Jobs |-> 0]
    /\ bump_stop = [j \in Jobs |-> FALSE]
    /\ raised = {}
    /\ marked = {}

IdleWorker ==
    /\ wpc = "off"
    /\ job = 0
    /\ wjobs = [j \in Jobs |-> NoRow]
    /\ input_files = [j \in Jobs |-> FALSE]
    /\ output_files = [j \in Jobs |-> FALSE]
    /\ logs = [j \in Jobs |-> FALSE]
    /\ progress = 0
    /\ returncode = 0
    /\ engine = [j \in Jobs |-> "none"]
    /\ bpc = [j \in Jobs |-> "off"]
    /\ next_value = [j \in Jobs |-> 0]
    /\ progress_state = [j \in Jobs |-> 0]
    /\ bump_stop = [j \in Jobs |-> FALSE]
    /\ raised = {}
    /\ marked = {}

\* worker.py:182-185  job = claim_next_job(DB_PATH); without a job main
\* sleeps and asks again
Claim ==
    /\ wpc = "L182"
    /\ claim_next_job(wjobs) # 0
    /\ job' = claim_next_job(wjobs)
    /\ wjobs' = set_job_status(wjobs, claim_next_job(wjobs), "processing")
    /\ wpc' = "L47"
    /\ UNCHANGED <<engine, input_files, output_files, logs, progress,
                   returncode, bpc, next_value, progress_state, bump_stop,
                   raised, marked>>
    /\ UNCHANGED <<pvars, avars, fvars, rvars, qvars>>

\* worker.py:47-103  run_job up to the engine's start: RuntimeError without
\* the generator, else the bump_progress thread is started
RunJob(configured) ==
    /\ wpc = "L47"
    /\ IF configured
       THEN /\ progress_state' = [progress_state EXCEPT ![job] = 0]
            /\ bump_stop' = [bump_stop EXCEPT ![job] = FALSE]
            /\ bpc' = [bpc EXCEPT ![job] = "L67"]
            /\ engine' = [engine EXCEPT ![job] = "running"]
            /\ wpc' = "L106"
            /\ UNCHANGED raised
       ELSE /\ raised' = raised \cup {job}
            /\ wpc' = "L191"
            /\ UNCHANGED <<progress_state, bump_stop, bpc, engine>>
    /\ UNCHANGED <<job, wjobs, input_files, output_files, logs, progress,
                   returncode, next_value, marked>>
    /\ UNCHANGED <<pvars, avars, fvars, rvars, qvars>>

\* worker.py:106-112  a PROGRESS line is read and its percent stored
ReadLine(printed) ==
    /\ wpc = "L106"
    /\ engine[job] = "running"
    /\ progress <= printed
    /\ progress' = printed
    /\ wjobs' = set_job_progress(wjobs, job, printed)
    /\ wpc' = "L113"
    /\ UNCHANGED <<engine, job, input_files, output_files, logs, returncode,
                   bpc, next_value, progress_state, bump_stop, raised, marked>>
    /\ UNCHANGED <<pvars, avars, fvars, rvars, qvars>>

\* worker.py:112  set_job_progress raises: run_job ends with the exception,
\* the stop event not set
ReadLineRaises ==
    /\ wpc = "L106"
    /\ engine[job] = "running"
    /\ raised' = raised \cup {job}
    /\ wpc' = "L191"
    /\ progress' = 0
    /\ progress_state' = Released(job)
    /\ UNCHANGED <<engine, job, wjobs, input_files, output_files, logs,
                   returncode, bpc, next_value, bump_stop, marked>>
    /\ UNCHANGED <<pvars, avars, fvars, rvars, qvars>>

\* worker.py:95, 112  the engine of a run_job that ended with an exception
\* at line 112 is not waited for: it runs on and exits later, its output
\* file written or not
EngineOrphan(j, written) ==
    /\ engine[j] = "running"
    /\ ~InRunJob(j)
    /\ engine' = [engine EXCEPT ![j] = "exited"]
    /\ output_files' = [output_files EXCEPT ![j] = output_files[j] \/ written]
    /\ UNCHANGED <<wpc, job, wjobs, input_files, logs, progress,
                   returncode, bpc, next_value, progress_state, bump_stop,
                   raised, marked>>
    /\ UNCHANGED <<pvars, avars, fvars, rvars, qvars>>

\* worker.py:113-115  progress_state["value"] = progress, under the lock
StateWrite ==
    /\ wpc = "L113"
    /\ progress_state' = [progress_state EXCEPT ![job] = progress]
    /\ wpc' = "L106"
    /\ UNCHANGED <<engine, job, wjobs, input_files, output_files, logs,
                   progress, returncode, bpc, next_value, bump_stop, raised,
                   marked>>
    /\ UNCHANGED <<pvars, avars, fvars, rvars, qvars>>

\* worker.py:106, 121-122  the engine's output ends: returncode =
\* proc.wait(), stop_event.set(); an engine that exits with 0 has written
\* its output file, one that fails has written it or not
EngineExit(code, written) ==
    /\ wpc = "L106"
    /\ code = 0 => written
    /\ returncode' = code
    /\ engine' = [engine EXCEPT ![job] = "exited"]
    /\ output_files' = [output_files EXCEPT ![job] = written]
    /\ bump_stop' = [bump_stop EXCEPT ![job] = bpc[job] # "ended"]
    /\ wpc' = "L123"
    /\ UNCHANGED <<job, wjobs, input_files, logs, progress, bpc,
                   next_value, progress_state, raised, marked>>
    /\ UNCHANGED <<pvars, avars, fvars, rvars, qvars>>

\* worker.py:123-125  progress_thread.join(0.5) returns, the thread ended or
\* not; JobFailure unless the engine exited with 0; run_job's locals end
\* with it
Join ==
    /\ wpc = "L123"
    /\ IF returncode # 0
       THEN /\ raised' = raised \cup {job}
            /\ wpc' = "L191"
       ELSE /\ wpc' = "L188"
            /\ UNCHANGED raised
    /\ progress' = 0
    /\ returncode' = 0
    /\ progress_state' = Released(job)
    /\ UNCHANGED <<engine, job, wjobs, input_files, output_files, logs, bpc,
                   next_value, bump_stop, marked>>
    /\ UNCHANGED <<pvars, avars, fvars, rvars, qvars>>

\* worker.py:188  apply_track_metadata returns or raises
Metadata(applied_ok) ==
    /\ wpc = "L188"
    /\ IF applied_ok
       THEN /\ wpc' = "L189"
            /\ UNCHANGED raised
       ELSE /\ raised' = raised \cup {job}
            /\ wpc' = "L191"
    /\ UNCHANGED <<engine, job, wjobs, input_files, output_files, logs,
                   progress, returncode, bpc, next_value, progress_state,
                   bump_stop, marked>>
    /\ UNCHANGED <<pvars, avars, fvars, rvars, qvars>>

\* worker.py:189  set_job_progress(DB_PATH, job.id, 100) returns or raises
Finish(stored) ==
    /\ wpc = "L189"
    /\ IF stored
       THEN /\ wjobs' = set_job_progress(wjobs, job, 100)
            /\ wpc' = "L193"
            /\ UNCHANGED raised
       ELSE /\ raised' = raised \cup {job}
            /\ wpc' = "L191"
            /\ UNCHANGED wjobs
    /\ UNCHANGED <<engine, job, input_files, output_files, logs, progress,
                   returncode, bpc, next_value, progress_state, bump_stop,
                   marked>>
    /\ UNCHANGED <<pvars, avars, fvars, rvars, qvars>>

\* worker.py:193  set_job_status(DB_PATH, job.id, "complete", None)
Complete ==
    /\ wpc = "L193"
    /\ wjobs' = set_job_status(wjobs, job, "complete")
    /\ marked' = marked \cup {job}
    /\ wpc' = "L182"
    /\ UNCHANGED <<engine, job, input_files, output_files, logs, progress,
                   returncode, bpc, next_value, progress_state, bump_stop,
                   raised>>
    /\ UNCHANGED <<pvars, avars, fvars, rvars, qvars>>

\* worker.py:190-192  except Exception: cleanup_failed_job(job, exc); continue
Cleanup ==
    /\ wpc = "L191"
    /\ wjobs' = cleanup_failed_job(Store, job).table
    /\ input_files' = cleanup_failed_job(Store, job).inputs
    /\ output_files' = cleanup_failed_job(Store, job).outputs
    /\ logs' = cleanup_failed_job(Store, job).logged
    /\ wpc' = "L182"
    /\ UNCHANGED <<engine, job, progress, returncode, bpc, next_value,
                   progress_state, bump_stop, raised, marked>>
    /\ UNCHANGED <<pvars, avars, fvars, rvars, qvars>>

\* worker.py:67-74, 79  bump_progress: the loop test, the read under the
\* lock and the tests on what was read; `late` is
\* time.time() - last_update > 1.0
BumpRead(j, late) ==
    /\ bpc[j] = "L67"
    /\ IF bump_stop[j] \/ progress_state[j] >= 75
       THEN /\ bpc' = [bpc EXCEPT ![j] = "ended"]
            /\ next_value' = [next_value EXCEPT ![j] = 0]
            /\ progress_state' = IF InRunJob(j) THEN progress_state
                                 ELSE [progress_state EXCEPT ![j] = 0]
            /\ bump_stop' = [bump_stop EXCEPT ![j] = FALSE]
       ELSE IF progress_state[j] >= 50 /\ late
       THEN /\ next_value' = [next_value EXCEPT ![j] = bump(progress_state[j])]
            /\ bpc' = [bpc EXCEPT ![j] = "L75"]
            /\ UNCHANGED <<progress_state, bump_stop>>
       ELSE UNCHANGED <<bpc, next_value, progress_state, bump_stop>>
    /\ UNCHANGED <<engine, wpc, job, wjobs, input_files, output_files, logs,
                   progress, returncode, raised, marked>>
    /\ UNCHANGED <<pvars, avars, fvars, rvars, qvars>>

\* worker.py:75  set_job_progress(DB_PATH, job_id, next_value)
BumpStore(j) ==
    /\ bpc[j] = "L75"
    /\ wjobs' = set_job_progress(wjobs, j, next_value[j])
    /\ bpc' = [bpc EXCEPT ![j] = "L76"]
    /\ UNCHANGED <<engine, wpc, job, input_files, output_files, logs,
                   progress, returncode, next_value, progress_state,
                   bump_stop, raised, marked>>
    /\ UNCHANGED <<pvars, avars, fvars, rvars, qvars>>

\* worker.py:76-79  progress_state["value"] = next_value under the lock,
\* then stop_event.wait(0.5)
BumpState(j) ==
    /\ bpc[j] = "L76"
    /\ progress_state' = [progress_state EXCEPT ![j] = next_value[j]]
    /\ bpc' = [bpc EXCEPT ![j] = "L67"]
    /\ UNCHANGED <<engine, wpc, job, wjobs, input_files, output_files, logs,
                   progress, returncode, next_value, bump_stop, raised,
                   marked>>
    /\ UNCHANGED <<pvars, avars, fvars, rvars, qvars>>

\* The services are not in use.
IdleServices == IdleFrames /\ IdleRetry /\ IdleApi /\ IdleWorker

vars == <<pvars, avars, xvars>>

NextReport ==
    \/ \E p \in PercentArgs, s \in Stages : CallReport(p, s)
    \/ ReportL21(Main)
    \/ ReportL22(Main)
    \/ ReportL24(Main)
    \/ ReportL25(Main)

NextProgress ==
    \/ \E p \in PercentArgs, s \in Stages : CallReport(p, s)
    \/ \E t \in Threads : ReportL21(t)
    \/ \E t \in Threads : ReportL22(t)
    \/ \E t \in Threads : ReportL24(t)
    \/ \E t \in Threads : ReportL25(t)
    \/ \E r \in Ramps, a \in RampArgs : StartRamp(r, a)
    \/ \E r \in Ramps : RunnerL36(r)
    \/ \E r \in Ramps, e \in ElapsedReadings : RunnerL37(r, e)
    \/ \E r \in Ramps : RunnerL41(r)
    \/ \E r \in Ramps : RunnerL43(r)
    \/ StopRampL53
    \/ \E timed_out \in BOOLEAN : StopRampL54(timed_out)

NextAnalysis ==
    \/ ExtractBeats
    \/ Summarize
    \/ Calibrate
    \/ Quantize
    \/ Rerun

\* A fresh reporter, no analysis running.
InitReporter == InitProgress /\ IdleAnalysis /\ IdleServices

\* The start of a run of analyze_audio, no reporter in use.
InitAnalysis ==
    /\ InitBeats \/ InitFeatures \/ InitCalibration \/ InitTempo
    /\ IdleProgress
    /\ IdleServices

\* One thread reporting on one reporter.
SpecReport == InitReporter /\ [][NextReport]_vars

\* The pipeline thread and the ramp threads on one reporter.
SpecProgress == InitReporter /\ [][NextProgress]_vars

\* Runs of analyze_audio.
SpecAnalysis == InitAnalysis /\ [][NextAnalysis]_vars

NextFrames == FrameSlice

\* A call of frame_slice, nothing else in use.
InitFrameCall ==
    /\ InitFrames
    /\ IdleProgress /\ IdleAnalysis /\ IdleRetry /\ IdleApi /\ IdleWorker

\* Calls of frame_slice.
SpecFrames == InitFrameCall /\ [][NextFrames]_vars

NextRetry ==
    \/ RetryLoop
    \/ \E resp \in Responses : RetryCall(resp)
    \/ RetryCallRaises
    \/ \E fetched \in BOOLEAN : RetryRefresh(fetched)
    \/ RetrySleep

\* A call of _retry_with_backoff, nothing else in use.
InitRetryCall ==
    /\ InitRetry
    /\ IdleProgress /\ IdleAnalysis /\ IdleFrames /\ IdleApi /\ IdleWorker

\* Calls of _retry_with_backoff.
SpecRetry == InitRetryCall /\ [][NextRetry]_vars

NextApi ==
    \/ \E r \in Requests : ApiLookup(r)
    \/ \E r \in Requests : ApiCheck(r)
    \/ \E r \in Requests : ApiCreate(r)
    \/ \E r \in Requests : ApiSchedule(r)
    \/ \E j \in JobIds : \E downloaded \in BOOLEAN : Download(j, downloaded)

\* Concurrent requests for one youtube_id, nothing else in use.
InitApiCall ==
    /\ InitApi
    /\ IdleProgress /\ IdleAnalysis /\ IdleFrames /\ IdleRetry /\ IdleWorker

\* POST /api/analysis/youtube for one youtube_id.
SpecApi == InitApiCall /\ [][NextApi]_vars

NextWorker ==
    \/ Claim
    \/ \E configured \in BOOLEAN : RunJob(configured)
    \/ \E printed \in EnginePercents : ReadLine(printed)
    \/ ReadLineRaises
    \/ \E j \in Jobs : \E written \in BOOLEAN : EngineOrphan(j, written)
    \/ StateWrite
    \/ \E code \in {0, 1} : \E written \in BOOLEAN : EngineExit(code, written)
    \/ Join
    \/ \E applied_ok \in BOOLEAN : Metadata(applied_ok)
    \/ \E stored \in BOOLEAN : Finish(stored)
    \/ Complete
    \/ Cleanup
    \/ \E j \in Jobs : \E late \in BOOLEAN : BumpRead(j, late)
    \/ \E j \in Jobs : BumpStore(j)
    \/ \E j \in Jobs : BumpState(j)

\* The worker with its queue of jobs, nothing else in use.
InitWorkerRun ==
    /\ InitWorker
    /\ IdleProgress /\ IdleAnalysis /\ IdleFrames /\ IdleRetry /\ IdleApi

\* The worker.
SpecWorker == InitWorkerRun /\ [][NextWorker]_vars

(***************************************************************************)
(* Properties of the progress reporter.                                    *)
(***************************************************************************)
\* The percents the callback received, in the order it was invoked.
Delivered == [i \in 1..Len(log) |-> log[i].percent]

NonDecreasing(s) == \A i \in 1..Len(s) : \A j \in i..Len(s) : s[i] <= s[j]

\* A delivery of a call whose argument was below the percent delivered before
\* it carries that percent, not the argument.
LowerIsRaised ==
    \A i \in 2..Len(log) :
        log[i].arg < log[i-1].percent => log[i].percent = log[i-1].percent

\* A report() returns without having invoked the callback only for a waiting
\* stage: every other call is delivered.
OnlyWaitingIsDropped ==
    (pc[Main] = "L22" /\ pc'[Main] = "idle") => StartsWithBeatsWait(stage[Main])

\* C1: report() calls made by one thread on a reporter with a callback: the
\* percents the callback receives never decrease; a call whose percent is
\* below the last delivered one is delivered (unless its stage is a waiting
\* one, which line 22 drops) and carries the last delivered percent; and
\* last_progress never decreases.
C1_ReportMonotone ==
    /\ [](NonDecreasing(Delivered) /\ LowerIsRaised)
    /\ [][last_progress' >= last_progress]_vars
    /\ [][OnlyWaitingIsDropped]_vars

\* C1 witness: a call with a percent below the last delivered one was delivered.
C1_Witness ==
    \E i \in 2..Len(log) :
        /\ log[i].arg < log[i-1].percent
        /\ log[i].percent = log[i-1].percent

\* C2: with a ramp running, whatever the interleaving of the ramp thread and
\* the pipeline thread in report(), the callback receives non-decreasing
\* percents and last_progress never decreases.
C2_RampMonotone ==
    /\ [](NonDecreasing(Delivered))
    /\ [][last_progress' >= last_progress]_vars

\* C3: once stop_ramp(ramp) has returned, the ramp's thread has ended and
\* delivers nothing more.
C3_StoppedRampIsDone ==
    /\ \A r \in joined : pc[r] = "done"
    /\ \A i \in 1..Len(log) : ~log[i].late

\* C4: every percent a ramp delivers lies in its [start_pct, end_pct].
C4_RampBounded ==
    \A i \in 1..Len(log) :
        log[i].by \in Ramps =>
            /\ ramp_args[log[i].by].start_pct <= log[i].percent
            /\ log[i].percent <= ramp_args[log[i].by].end_pct

\* C5: every percent the callback receives is an integer in 0..100.
C5_PercentRange == \A i \in 1..Len(log) : log[i].percent \in 0..100

\* The report() in progress has a waiting stage and a percent that does not
\* exceed the last delivered one.
WaitingRepeat == StartsWithBeatsWait(stage[Main]) /\ arg[Main] <= last_progress

\* The steps of one report() of the pipeline thread, by the line it is at.
ReportSteps ==
    /\ pc[Main] \in {"idle", "L21", "L24"} =>
          log' = log
    /\ (pc[Main] = "L22" /\ WaitingRepeat) =>
          pc'[Main] = "idle" /\ log' = log /\ last_progress' = last_progress
    /\ (pc[Main] = "L22" /\ ~WaitingRepeat) =>
          pc'[Main] = "L24" /\ log' = log
    /\ pc[Main] = "L24" => pc'[Main] = "L25"
    /\ pc[Main] = "L25" =>
          /\ pc'[Main] = "idle"
          /\ log' = Append(log, log'[Len(log')])
          /\ log'[Len(log')].arg = arg[Main]
          /\ log'[Len(log')].stage = stage[Main]

\* C19: a report whose stage is a waiting stage and whose percent does not
\* exceed the last delivered percent returns without invoking the callback
\* and leaves last_progress as it was; every other report on a reporter with
\* a callback invokes the callback exactly once, with its own stage.
C19_WaitingSuppressed == [][ReportSteps]_vars

\* C19 witness: the second of two reports was a waiting one at the delivered
\* percent and the callback was invoked once only.
C19_Witness ==
    /\ callback
    /\ pc[Main] = "idle"
    /\ ncalls = 2
    /\ Len(log) = 1
    /\ StartsWithBeatsWait(stage[Main])
    /\ arg[Main] = last_progress

(***************************************************************************)
(* Properties of analyze_audio.                                            *)
(***************************************************************************)
\* The quantum levels of a returned document.
Levels(a) == {a.sections, a.bars, a.beats, a.tatums, a.segments}

\* The quanta tile [0, dur]: first start 0, each end the next start, last end dur.
Covers(q, dur) ==
    /\ Len(q) > 0 => q[1].start = 0
    /\ \A i \in 1..(Len(q) - 1) : q[i].start + q[i].duration = q[i + 1].start
    /\ Len(q) > 0 => q[Len(q)].start + q[Len(q)].duration = dur
    /\ Len(q) = 0 => dur = 0

\* C6: at every quantum level of the result the quanta cover the track from 0
\* to its duration without gap or overlap.
C6_Coverage ==
    analysis.returned =>
        \A q \in Levels(analysis) : Covers(q, analysis.track.duration)

StrictlyIncreasingStarts(q) ==
    \A i \in 1..Len(q) : \A j \in (i + 1)..Len(q) : q[i].start < q[j].start

\* C7: at every level of the result the starts are strictly increasing and
\* lie within [0, duration].
C7_StartsIncreaseInTrack ==
    analysis.returned =>
        \A q \in Levels(analysis) :
            /\ StrictlyIncreasingStarts(q)
            /\ \A i \in 1..Len(q) :
                  0 <= q[i].start /\ q[i].start <= analysis.track.duration

\* C7 witness: a result with several beats, the last one at the track's end,
\* where two tatums of the last beat coincide.
C7_Witness ==
    /\ analysis.returned
    /\ Len(analysis.beats) >= 2
    /\ analysis.beats[Len(analysis.beats)].start = analysis.track.duration
    /\ Len(analysis.tatums) < Len(analysis.beats) * tatums_per_beat

TrackerFoundNothing == extract_beats(downbeats, fallback_beats).times = <<>>

\* C8: when the beat tracker returns no beats the run goes on with exactly one
\* beat at t=0 with number 1, and every returned result has at least one beat
\* and one bar.
C8_FallbackBeat ==
    /\ (TrackerFoundNothing /\ apc \notin {"L69"}) =>
          /\ beat_times = <<0>>
          /\ beat_numbers = <<1>>
    /\ analysis.returned =>
          Len(analysis.beats) >= 1 /\ Len(analysis.bars) >= 1

\* C8 witness: a finished run whose tracker found nothing.
C8_Witness ==
    /\ TrackerFoundNothing
    /\ analysis.returned
    /\ analysis.beats = <<[start |-> 0, duration |-> duration, confidence |-> 1]>>
    /\ Len(analysis.bars) = 1
    /\ duration > 0

InUnit(x) == FLeq(Whole(0), x) /\ FLeq(x, Whole(1))

\* C9: the confidence of every segment lies in [0, 1], with or without a
\* calibration document.
C9_ConfidenceInUnit ==
    /\ \A i \in 1..Len(segments) : InUnit(segments[i].confidence)
    /\ analysis.returned =>
          \A i \in 1..Len(analysis.segments) :
              InUnit(analysis.segments[i].confidence)

Silent(hpcp) == \A i \in 1..Len(hpcp) : hpcp[i] = 0

\* C10: before calibration every pitch component lies in [0, 1]; the vector
\* is the window's energies divided by their maximum, and the zero vector
\* for a silent window.
C10_PitchesNormalized ==
    apc = "L124" =>
        \A s \in 1..Len(segments) :
            LET p == segments[s].pitches IN
            /\ \A i \in 1..Len(p) : InUnit(p[i])
            /\ Silent(seg_hpcp) => \A i \in 1..Len(p) : p[i] = Whole(0)
            /\ ~Silent(seg_hpcp) =>
                  /\ Len(p) = Len(seg_hpcp)
                  /\ \A i \in 1..Len(p) :
                        p[i].n * SetMax(Range(seg_hpcp)) = seg_hpcp[i] * p[i].d

\* C10 witness: a summarized segment with a pitch component strictly between
\* 0 and 1, beside one that is 1.
C10_Witness ==
    /\ apc = "L124"
    /\ \E s \in 1..Len(segments) :
          /\ \E i \in 1..12 : segments[s].pitches[i] = Frac(1, 2)
          /\ \E i \in 1..12 : segments[s].pitches[i] = Whole(1)

\* What the summarizer produces for the inputs of the run.
Summaries == [i \in 1..(Len(boundaries) - 1) |-> segment_of(i)]

\* The calibration step of the running call is over.
Calibrated == apc \in {"L148", "done"}

Parts == {"sections", "bars", "beats", "tatums", "segments", "track"}

\* C11: a run of analyze_audio either returns a document that holds all of
\* sections, bars, beats, tatums, segments and track, or raises and returns
\* nothing; a document is returned by a run that has come to its end only.
C11_FullOrNothing ==
    /\ analysis.returned => (Parts \subseteq DOMAIN analysis /\ apc = "done")
    /\ ~analysis.returned => analysis = NoResult
    /\ apc = "raised" => ~analysis.returned

\* C11 witness: a run that raised after it had built its segments.
C11_Witness ==
    /\ apc = "raised"
    /\ Len(segments) > 0
    /\ analysis = NoResult

C13_NoCalibrationPassThrough ==
    (~calibration.given /\ Calibrated) =>
        /\ segments = Summaries
        /\ analysis.returned => analysis.segments = Summaries

\* C13 witness: segments past the calibration step of a run without document.
C13_Witness ==
    /\ ~calibration.given
    /\ apc = "L148"
    /\ Len(segments) > 1
    /\ segments = Summaries

\* A confidence map whose arrays differ in length, one missing included.
MalformedConfidence(cal) ==
    cal.confidence.present
        /\ Len(cal.confidence.source) # Len(cal.confidence.target)

\* A timbre map whose scale is neither one value nor twelve.
MalformedTimbre(cal) ==
    Truthy(cal.timbre) /\ NCols(Get(cal.timbre, "a", DefaultA)) \notin {1, 12}

\* C14: calibration data that is malformed for one field (a missing array,
\* arrays of different lengths) never makes the run raise and leaves that
\* field of every segment as summarized; the other fields are calibrated.
C14_MalformedFieldPassesThrough ==
    calibration.given =>
        /\ MalformedConfidence(calibration) =>
              /\ apc # "raised"
              /\ Calibrated =>
                    \A i \in 1..Len(segments) :
                        /\ segments[i].confidence = Summaries[i].confidence
                        /\ segments[i].loudness_max =
                              calibrate_loudness(Summaries[i],
                                                 calibration).loudness_max
        /\ MalformedTimbre(calibration) =>
              /\ apc # "raised"
              /\ Calibrated =>
                    \A i \in 1..Len(segments) :
                        segments[i].timbre = Summaries[i].timbre

\* A = I (as a matrix, or as the scale of ones) and b = 0.
IdentityTimbre(cal) ==
    /\ Truthy(cal.timbre)
    /\ Get(cal.timbre, "a", DefaultA) \in {DefaultA, Arr2(Identity12)}
    /\ Get(cal.timbre, "b", DefaultB) = DefaultB

\* C15: with the identity timbre calibration the timbre of every segment is
\* after calibration the vector of twelve values it was before.
C15_IdentityTimbre ==
    (calibration.given /\ IdentityTimbre(calibration) /\ Calibrated) =>
        \A i \in 1..Len(segments) :
            /\ segments[i].timbre = Summaries[i].timbre
            /\ segments[i].timbre.rank = 1
            /\ Len(segments[i].timbre.vec) = 12

NonDecreasingSeq(q) == \A i \in 1..(Len(q) - 1) : q[i] <= q[i + 1]

\* A confidence map with as many target as source quantiles, both in order.
WellFormedConfidence(cal) ==
    /\ cal.confidence.present
    /\ Len(cal.confidence.source) > 0
    /\ Len(cal.confidence.source) = Len(cal.confidence.target)
    /\ NonDecreasingSeq(cal.confidence.source)
    /\ NonDecreasingSeq(cal.confidence.target)

\* Confidences from -1/4 to 5/4 in steps of a quarter.
ConfidenceGrid == {Frac(k, 4) : k \in (-1)..5}

\* The map is linear between the knots j and j + 1 of distinct source values.
LinearBetween(m, j) ==
    \A x \in ConfidenceGrid :
        (FLess(Whole(m.source[j]), x) /\ FLess(x, Whole(m.source[j + 1]))) =>
            FMul(FSub(apply_confidence_mapping(x, m), Whole(m.target[j])),
                 Whole(m.source[j + 1] - m.source[j]))
              = FMul(FSub(x, Whole(m.source[j])),
                     Whole(m.target[j + 1] - m.target[j]))

\* C16: the confidence quantile map interpolates linearly between the source
\* quantiles and is monotone for arrays in order: a larger confidence never
\* maps to a smaller one; with source [0,1] and target [0,2], 0.5 maps to
\* 1.0; and the calibrated confidence of a segment is the map of its summary.
C16_QuantileMapMonotone ==
    (calibration.given /\ WellFormedConfidence(calibration)) =>
        LET m == calibration.confidence IN
        /\ apc = "L148" =>
              /\ \A x, y \in ConfidenceGrid :
                    FLeq(x, y) => FLeq(apply_confidence_mapping(x, m),
                                       apply_confidence_mapping(y, m))
              /\ \A j \in 1..(Len(m.source) - 1) : LinearBetween(m, j)
              /\ (m.source = <<0, 1>> /\ m.target = <<0, 2>>) =>
                    apply_confidence_mapping(Frac(1, 2), m) = Whole(1)
        /\ Calibrated =>
              \A i \in 1..Len(segments) :
                  segments[i].confidence =
                      apply_confidence_mapping(Summaries[i].confidence, m)

\* C16 witness: a segment of confidence 0.5 calibrated to 1.0 by the map with
\* source [0,1] and target [0,2].
C16_Witness ==
    /\ apc = "L148"
    /\ calibration.given
    /\ calibration.confidence.source = <<0, 1>>
    /\ calibration.confidence.target = <<0, 2>>
    /\ \E i \in 1..Len(segments) :
          /\ Summaries[i].confidence = Frac(1, 2)
          /\ segments[i].confidence = Whole(1)

\* C17: every returned document has at least one section.
C17_AtLeastOneSection ==
    analysis.returned => Len(analysis.sections) >= 1

\* C17 witness: a document with its one section although fewer than two
\* boundaries were detected.
C17_Witness ==
    /\ analysis.returned
    /\ Len(boundaries) < 2
    /\ Len(analysis.sections) = 1

\* The numbers run 1, 2, .., ts, 1, 2, .. from wherever they start.
Cycles(numbers, ts) ==
    /\ \A i \in 1..Len(numbers) : numbers[i] \in 1..ts
    /\ \A i \in 1..(Len(numbers) - 1) : numbers[i + 1] = (numbers[i] % ts) + 1

\* C18: the beat numbers of a run cycle through 1..time_signature, the value
\* the document's track reports, and every bar of the document starts at a
\* beat whose number is 1.
C18_BeatNumbersCycle ==
    analysis.returned =>
        /\ Cycles(beat_numbers, analysis.track.time_signature)
        /\ \A b \in 1..Len(analysis.bars) :
              \E i \in 1..Len(beat_times) :
                  /\ beat_times[i] = analysis.bars[b].start
                  /\ beat_numbers[i] = 1

\* C20: the beats list has one quantum per beat time, in order; the duration
\* of a beat is the gap to the next beat time, and that of the last beat is
\* the track duration minus its start.
C20_BeatsFromBeatTimes ==
    analysis.returned =>
        /\ Len(analysis.beats) = Len(beat_times)
        /\ \A i \in 1..Len(beat_times) :
              /\ analysis.beats[i].start = beat_times[i]
              /\ analysis.beats[i].duration =
                    IF i < Len(beat_times)
                    THEN beat_times[i + 1] - beat_times[i]
                    ELSE analysis.track.duration - beat_times[i]

\* C20 witness: a document of several beats, the last one before the end.
C20_Witness ==
    /\ analysis.returned
    /\ Len(analysis.beats) >= 2
    /\ analysis.beats[1].duration = analysis.beats[2].start - analysis.beats[1].start
    /\ analysis.beats[Len(analysis.beats)].duration > 0

\* The positions of the beats whose number is 1.
Downbeats == {i \in 1..Len(beat_times) : beat_numbers[i] = 1}

StartsOf(q) == [i \in 1..Len(q) |-> q[i].start]

\* C21: the bar starts are the beat times whose beat number is 1, in beat
\* order; when no beat has number 1 there is one bar, at the first beat time.
C21_BarsAtDownbeats ==
    analysis.returned =>
        LET starts == StartsOf(analysis.bars) IN
        IF Downbeats = {} THEN starts = <<beat_times[1]>>
        ELSE /\ Len(starts) = Cardinality(Downbeats)
             /\ \A b \in 1..Len(starts) :
                   \E i \in Downbeats :
                       /\ starts[b] = beat_times[i]
                       /\ Cardinality({j \in Downbeats : j < i}) = b - 1

\* C21 witness: a document of several beats, none of them numbered 1, with
\* its one bar at the first beat.
C21_Witness ==
    /\ analysis.returned
    /\ Len(beat_times) >= 2
    /\ Downbeats = {}
    /\ StartsOf(analysis.bars) = <<beat_times[1]>>

\* Where the interval of beat i ends: the next beat, or the track's end.
BeatEnd(i) ==
    IF i < Len(beat_times) THEN beat_times[i + 1] ELSE analysis.track.duration

\* The points that divide the beat intervals into tatums_per_beat equal parts.
DivisionPoints ==
    {pt \in 0..analysis.track.duration :
        \E i \in 1..Len(beat_times), k \in 0..(tatums_per_beat - 1) :
            (pt - beat_times[i]) * tatums_per_beat
                = k * Max2(0, BeatEnd(i) - beat_times[i])}

\* C22: the tatum starts are the points that divide every beat interval, the
\* last one running to the track's end, into tatums_per_beat equal parts,
\* each once and in increasing order; every beat time is a tatum start.
C22_TatumsSubdivideBeats ==
    analysis.returned =>
        LET starts == StartsOf(analysis.tatums) IN
        /\ Range(starts) = DivisionPoints
        /\ \A i \in 1..(Len(starts) - 1) : starts[i] < starts[i + 1]
        /\ Range(beat_times) \subseteq Range(starts)

\* C22 witness: a document of several beats with tatums_per_beat tatums to
\* every beat, some of them between the beats.
C22_Witness ==
    /\ analysis.returned
    /\ Len(beat_times) >= 2
    /\ Len(analysis.tatums) = Len(beat_times) * tatums_per_beat
    /\ Range(StartsOf(analysis.tatums)) # Range(beat_times)

\* 60 / dt for the gaps dt between consecutive beat times (dt in seconds)
GapTempos ==
    [i \in 1..(Len(beat_times) - 1) |->
        Frac(60 * tatums_per_beat, beat_times[i + 1] - beat_times[i])]

\* v is the r-th smallest of the values.
AtRank(v, vals, r) ==
    /\ Cardinality({k \in 1..Len(vals) : FLess(vals[k], v)}) < r
    /\ r <= Cardinality({k \in 1..Len(vals) : FLeq(vals[k], v)})

\* m is the median: the middle value, or half the sum of the two middle ones.
IsMedian(m, vals) ==
    \E i, j \in 1..Len(vals) :
        /\ AtRank(vals[i], vals, (Len(vals) + 1) \div 2)
        /\ AtRank(vals[j], vals, (Len(vals) \div 2) + 1)
        /\ m = FDiv(FAdd(vals[i], vals[j]), Whole(2))

\* C23: the track tempo is the median of 60/dt over the gaps dt between
\* consecutive beat times, and 0 when there are fewer than two beats.
C23_TempoIsMedian ==
    analysis.returned =>
        IF Len(beat_times) < 2 THEN analysis.track.tempo = Whole(0)
        ELSE IsMedian(analysis.track.tempo, GapTempos)

\* C23 witness: a document of beats with three gaps, not all alike.
C23_Witness ==
    /\ analysis.returned
    /\ Len(GapTempos) >= 3
    /\ \E i, j \in 1..Len(GapTempos) : GapTempos[i] # GapTempos[j]
    /\ analysis.track.tempo \in Range(GapTempos)

CorrectionOrder ==
    <<"timbre", "loudness", "confidence", "pitch", "start_offset">>

\* The corrections a document carries a map for.
Supplied(cal) ==
    {f \in Range(CorrectionOrder) :
        \/ f = "timbre" /\ Truthy(cal.timbre)
        \/ f = "loudness" /\ Truthy(cal.loudness)
        \/ f = "confidence" /\ cal.confidence.present
        \/ f = "pitch" /\ "power" \in cal.pitch.keys
        \/ f = "start_offset" /\ cal.start_offset.present}

PlaceOf(f) == CHOOSE k \in 1..Len(CorrectionOrder) : CorrectionOrder[k] = f

\* C24: with a calibration document the corrections of every segment are
\* those the document carries, made in the order timbre, loudness,
\* confidence, pitch, start-offset.
C24_CorrectionOrder ==
    (calibration.given /\ Calibrated) =>
        \A i \in 1..Len(applied) :
            /\ Range(applied[i]) = Supplied(calibration)
            /\ \A a \in 1..Len(applied[i]) : \A b \in (a + 1)..Len(applied[i]) :
                  PlaceOf(applied[i][a]) < PlaceOf(applied[i][b])

\* C30: for every input frame_slice returns a pair (start, end) with
\* 0 <= start < end.
C30_FrameWindowNonEmpty ==
    fpc = "returned" =>
        (0 <= frame_window.start /\ frame_window.start < frame_window.end)

LiveJobs == {j \in 1..Len(api_jobs) :
                api_jobs[j].present /\ api_jobs[j].status # "failed"}

\* C26: under concurrent POST /api/analysis/youtube requests for one
\* youtube_id at most one job that has not failed exists for it, and a
\* request that found a job that has not failed answers with it, having
\* created no job and scheduled no download.
C26_OneLiveJob ==
    /\ Cardinality(LiveJobs) <= 1
    /\ \A r \in Requests :
          (qpc[r] = "returned" /\ live_job(existing[r])) =>
              /\ answer[r] = existing[r].id
              /\ made[r] = 0

\* C25: during run_job the progress stored for the job never decreases,
\* whichever way the bump_progress thread and the loop over the engine's
\* output interleave.
C25_StoredProgressNeverDecreases ==
    [][\A j \in Jobs :
          (InRunJob(j) /\ wjobs[j].present /\ wjobs'[j].present) =>
              wjobs[j].progress <= wjobs'[j].progress]_vars

\* C27: a job is set to "complete" only when run_job returned normally and
\* its progress was set to 100, and a job whose status is "complete" has the
\* stored progress 100, also when the bump_progress thread outlives the
\* join.
C27_CompleteMeansHundred ==
    \A j \in Jobs :
        /\ j \in marked => j \notin raised
        /\ (wpc = "L193" /\ job = j) => wjobs[j].progress = 100
        /\ (wjobs[j].present /\ wjobs[j].status = "complete") =>
               wjobs[j].progress = 100

\* main is in the except clause for job j
Handling(j) == job = j /\ wpc = "L191"

=============================================================================
